---- MODULE Spec2Model ----
(***************************************************************************)
(* A model of tisane's QueryManager (src/tisane/smt/query_manager.py):     *)
(* solve, check_update_constraints, elicit_user_input and update_clauses.  *)
(*                                                                         *)
(* The Z3 solver is modelled by what the code observes of it.  A rule is   *)
(* a "nogood": a set of facts that cannot all be true together (the empty  *)
(* nogood is a rule set that is unsatisfiable on its own).  A check of a   *)
(* list of assumptions against the rules in the solver is unsat exactly    *)
(* when some nogood is contained in the assumptions, and every check may   *)
(* instead answer unknown.  An unsat core is any unsatisfiable selection   *)
(* of the assumptions: Z3 does not promise a minimal core.                 *)
(*                                                                         *)
(* Spec models solve; QuerySpec models query, collect_rules and            *)
(* postprocess_query_results; TisaneSpec models Tisane and its conceptual  *)
(* graph (src/tisane/main.py); RandomEffectsSpec models the random effects *)
(* (src/tisane/random_effects.py); CodeGenSpec models the formula and GLM  *)
(* generators (src/tisane/code_generator.py), whose texts are sequences of *)
(* characters.  Each specification holds the variables of the others at a  *)
(* placeholder.                                                            *)
(***************************************************************************)
EXTENDS Integers, Sequences, FiniteSets, TLC

VARIABLES
    pc,             \* position of the running call
    facts,          \* solve: the facts parameter
    rules,          \* solve: the rules dict, as the sequence of its batches in insertion order
    batch,          \* solve: number of batches the for loop has taken
    solverRules,    \* the rules added to the Solver s so far
    added,          \* the batches added to s, in the order they were added
    assertions,     \* check_update_constraints: the assertions parameter / local
    unsat_core,     \* check_update_constraints: unsat_core (a local: empty outside its frame)
    keep,           \* elicit_user_input: keep, then keep_constraint (a local likewise)
    idx,            \* elicit_user_input: the last answer read from input() (a local likewise)
    updated_facts,  \* solve: updated_facts
    lastCheck,      \* what the last solver.check saw and answered
    result,         \* what solve returned
    err,            \* the exception that ended the call
    rounds,         \* resolutions completed in the running check_update_constraints call
    discarded,      \* every fact a resolution has removed during this solve
    uc,             \* a direct call of update_clauses: its arguments and its outcome
    q_pc,           \* position of a query / collect_rules / postprocess_query_results call
    q_args,         \* that call's arguments, as they were when it was made
    input_obj,      \* the input object, as it is now
    output_obj,     \* the output object, as it is now
    q_rules,        \* query: rules, what collect_rules returned
    q_solved,       \* postprocess_query_results: model and updated_facts
    q_i,            \* postprocess_query_results: facts of updated_facts the for loop has taken
    q_err,          \* the exception that ended that call
    task,           \* Tisane.task
    graph,          \* Tisane.graph
    t_last,         \* the last call made on the Tisane object, with the graph before it
    t_ops,          \* calls made on the Tisane object
    re,             \* the last random effect constructed
    statistical_model,  \* code generator: the statistical_model argument
    kwargs,         \* code generator: the keyword arguments of the last call
    code            \* code generator: the last call and what it returned or raised

queryVars == <<q_pc, q_args, input_obj, output_obj, q_rules, q_solved, q_i, q_err>>

tisaneVars == <<task, graph, t_last, t_ops>>

managerVars == <<pc, facts, rules, batch, solverRules, added, assertions, unsat_core, keep,
                 idx, updated_facts, lastCheck, result, err, rounds, discarded, uc>>

codegenVars == <<statistical_model, kwargs, code>>

vars == <<managerVars, queryVars, tisaneVars, re, codegenVars>>

solveVars == <<facts, rules, batch, solverRules, added, assertions, unsat_core, keep,
               idx, updated_facts, lastCheck, result, rounds, discarded>>

-----------------------------------------------------------------------------
(* Bounds *)

MaxFacts == 2

MaxBatches == 2

MaxRounds == 2

-----------------------------------------------------------------------------
(* Inputs *)

Fact(fn, a, b) == [function |-> fn, start |-> a, end |-> b]

\* The facts an input compiles to, in the order compile_to_facts lists them.
CompiledFacts ==
    << Fact("Cause", "HW", "Math"),
       Fact("Correlate", "Race", "Math"),
       Fact("Interaction", "HW", "Race") >>

FactUniverse == { CompiledFacts[i] : i \in DOMAIN CompiledFacts }

Pos(f) == CHOOSE i \in DOMAIN CompiledFacts : CompiledFacts[i] = f

\* The fact lists solve is called with: at most n of the compiled facts, in
\* compilation order.
FactLists(n) ==
    UNION { { s \in [1..k -> FactUniverse] : \A i, j \in 1..k : i < j => Pos(s[i]) < Pos(s[j]) }
            : k \in 0..n }

\* Duplicate-free lists of at most n facts, in any order.
PermLists(n) ==
    UNION { { s \in [1..k -> FactUniverse] : \A i, j \in 1..k : s[i] = s[j] => i = j }
            : k \in 0..n }

\* Lists of at most n facts, duplicates allowed.
AnyFactLists(n) == UNION { [1..k -> FactUniverse] : k \in 0..n }

\* A rule batch: no rule, or one rule forbidding a set of at most two facts
\* (tisane's rules relate the facts over one pair of variables).
RuleBatches ==
    { {} } \cup { {ng} : ng \in {x \in SUBSET FactUniverse : Cardinality(x) <= 2} }

\* A rules dict: at most MaxBatches batches, no batch twice.
RuleDicts ==
    UNION { {d \in [1..k -> RuleBatches] : \A i, j \in 1..k : d[i] = d[j] => i = j}
            : k \in 0..MaxBatches }

\* What input() can be parsed to.
Answers == -2 .. (MaxFacts - 1)

Range(s) == { s[i] : i \in DOMAIN s }

-----------------------------------------------------------------------------
(* The solver *)

Satisfiable(assumptions, rs) == \A ng \in rs : ~ (ng \subseteq Range(assumptions))

CheckStates(assumptions, rs) ==
    { IF Satisfiable(assumptions, rs) THEN "sat" ELSE "unsat", "unknown" }

\* What solver.unsat_core() can answer: any unsatisfiable selection of the
\* assumptions, minimal or not, listed in the order of the assumptions.  (The
\* order of a core decides which index names which member and nothing else,
\* and the resolver may answer any index.)
UnsatCores(assumptions, rs) ==
    { c \in FactLists(Len(assumptions)) :
        /\ Range(c) \subseteq Range(assumptions)
        /\ ~ Satisfiable(c, rs) }

\* The assignments that satisfy the rules rs and make every assumption true,
\* each given as the set of facts it makes true.
Models(assumptions, rs) ==
    { m \in SUBSET FactUniverse :
        /\ Range(assumptions) \subseteq m
        /\ \A ng \in rs : ~ (ng \subseteq m) }

\* s.model() as if the last check had been made without its assumptions.
model_ignoring_assumptions(lc) == Models(<<>>, lc.rules)

\* s.model(): a model of what the last check checked.
model(lc) == Models(lc.assumptions, lc.rules)

\* s.add(rules) that forgets what was added before.
add_replacing(rs, b) == b

\* s.add(rules): the batch joins the rules already in the solver.
add(rs, b) == rs \cup b

\* The branch on state that lets an unknown result pass like sat.
state_branch_unknown_passes(st) ==
    CASE st = "unsat" -> "resolve"
      [] OTHER -> "pass"

\* check_update_constraints: the if / elif / else on state.
state_branch(st) ==
    CASE st = "unsat" -> "resolve"
      [] st = "sat" -> "pass"
      [] OTHER -> "raise"

\* The assertion on the core left out.
core_asserted_nothing(core) == TRUE

\* check_update_constraints: assert(len(unsat_core) > 0).
core_asserted(core) == Len(core) > 0

\* The selection that always takes the first member of the core.
selected_first(core, i) == core[1]

\* elicit_user_input: unsat_core[idx], indices from 0.
selected(core, i) == core[i + 1]

NoCheck == [state |-> "none", assumptions |-> <<>>, rules |-> {}, by |-> "none"]

NoResult == [returned |-> FALSE, mdl |-> {}, facts |-> <<>>]

NoCall == [called |-> FALSE]

\* idx while no answer has been read.
NoAnswer == -3

-----------------------------------------------------------------------------
(* update_clauses *)

In(c, list) == \E i \in DOMAIN list : list[i] = c

AssertionFails(unsat_core_, keep_clause) ==
    \E i \in DOMAIN keep_clause : ~ In(keep_clause[i], unsat_core_)

Remove(pcn, unsat_core_, keep_clause) == In(pcn, unsat_core_) /\ ~ In(pcn, keep_clause)

\* update_clauses that drops every member of the core, retained or not.
update_clauses_dropping_core(pushed_constraints, unsat_core_, keep_clause) ==
    LET Kept(pcn) == ~ In(pcn, unsat_core_)
    IN  SelectSeq(pushed_constraints, Kept)

update_clauses(pushed_constraints, unsat_core_, keep_clause) ==
    LET Kept(pcn) == ~ Remove(pcn, unsat_core_, keep_clause)
    IN  SelectSeq(pushed_constraints, Kept)

-----------------------------------------------------------------------------
(* query, collect_rules and postprocess_query_results: inputs *)

MaxCastFacts == 2    \* longest updated_facts list handed to postprocess_query_results

Names == {"HW", "Math", "Race"}

\* The text of every name and predicate, character by character.
Chars ==
    [s \in Names \cup {"Cause", "Correlate", "Interaction", "Nests"} |->
        CASE s = "HW"          -> <<"H", "W">>
          [] s = "Math"        -> <<"M", "a", "t", "h">>
          [] s = "Race"        -> <<"R", "a", "c", "e">>
          [] s = "Cause"       -> <<"C", "a", "u", "s", "e">>
          [] s = "Correlate"   -> <<"C", "o", "r", "r", "e", "l", "a", "t", "e">>
          [] s = "Interaction" -> <<"I", "n", "t", "e", "r", "a", "c", "t", "i", "o", "n">>
          [] s = "Nests"       -> <<"N", "e", "s", "t", "s">>]

\* The facts a query works with: the three of CompiledFacts and one whose
\* predicate is none of Cause, Correlate and Interaction.
QueryFacts == FactUniverse \cup {Fact("Nests", "Race", "HW")}

VarsOf(fs) == {f.start : f \in fs} \cup {f.end : f \in fs}

\* Duplicate-free lists of at most n facts of fs, in any order.
QueryFactLists(fs, n) ==
    {l \in UNION {[1..k -> fs] : k \in 0..n} :
        \A i, j \in 1..Len(l) : i # j => l[i] # l[j]}

OutputKinds == {"Graph", "StatisticalModel", "Design", "Other"}

InputKinds == {"Design", "StatisticalModel"}

\* An input object: its kind, its variables, its compiled facts (over its own
\* variables) and whether its Z3 constants have been generated.
InputObjects ==
    {[kind |-> k, variables |-> vs, facts |-> fl, consts |-> c] :
        k \in InputKinds, vs \in SUBSET Names, c \in BOOLEAN,
        fl \in QueryFactLists(QueryFacts, MaxCastFacts)} 

WellFormed(io) == VarsOf(Range(io.facts)) \subseteq io.variables

\* A fresh output object of a kind.
Output(k) == [kind |-> k, edges |-> {}]

NoArgs == [call |-> "none"]

NoSolved == [model |-> {}, updated_facts |-> <<>>]

NoInput == [kind |-> "none", variables |-> {}, facts |-> <<>>, consts |-> FALSE]

-----------------------------------------------------------------------------
(* str, split and strip, on texts that are sequences of characters *)

\* str(fact) for a fact Predicate(start, end): "Predicate(start, end)".
str(f) == Chars[f.function] \o <<"(">> \o Chars[f.start] \o <<",", " ">>
          \o Chars[f.end] \o <<")">>

RECURSIVE split(_, _)
\* s.split(sep): the pieces of s between the occurrences of the character sep.
split(s, sep) ==
    IF \A i \in 1..Len(s) : s[i] # sep
    THEN <<s>>
    ELSE LET i == CHOOSE k \in 1..Len(s) : s[k] = sep /\ \A j \in 1..(k - 1) : s[j] # sep
         IN  <<SubSeq(s, 1, i - 1)>> \o split(SubSeq(s, i + 1, Len(s)), sep)

RECURSIVE lstrip(_)
lstrip(s) == IF s # <<>> /\ Head(s) = " " THEN lstrip(Tail(s)) ELSE s

RECURSIVE rstrip(_)
rstrip(s) == IF s # <<>> /\ s[Len(s)] = " " THEN rstrip(SubSeq(s, 1, Len(s) - 1)) ELSE s

strip_nothing(s) == s

\* s.strip()
strip(s) == rstrip(lstrip(s))

\* parse_facts(fact): the fact_dict, or the IndexError of a subscript out of range.
parse_facts(f) ==
    LET tmp == split(str(f), "(")
    IN  IF Len(tmp) < 2
        THEN [raised |-> "IndexError"]
        ELSE LET variables == split(split(tmp[2], ")")[1], ",")
             IN  IF Len(variables) < 2
                 THEN [raised |-> "IndexError"]
                 ELSE [raised |-> "none", function |-> tmp[1],
                       start |-> strip(variables[1]), end |-> strip(variables[2])]

\* get_var_names_to_variables(input_obj): filled for a Design only.
get_var_names_to_variables(io) ==
    IF io.kind = "Design"
    THEN [n \in {Chars[v] : v \in io.variables} |->
             CHOOSE v \in io.variables : Chars[v] = n]
    ELSE [n \in {} |-> "none"]

\* Graph.cause(start, end): a directed causal edge from start to end.
cause(edges, a, b) == edges \cup {[kind |-> "cause", start |-> a, end |-> b]}

\* Graph.correlate(start, end): a correlational edge between start and end.
correlate(edges, a, b) == edges \cup {[kind |-> "correlate", start |-> a, end |-> b]}

add_edge_nothing(edges, function, start_var, end_var) == edges

add_edge_reversed(edges, function, start_var, end_var) ==
    IF function = Chars["Cause"] THEN cause(edges, end_var, start_var)
    ELSE IF function \in {Chars["Correlate"], Chars["Interaction"]}
         THEN correlate(edges, start_var, end_var)
         ELSE edges

\* The branches on fact_dict['function'] of a Graph output: if / elif, then if.
add_edge(edges, function, start_var, end_var) ==
    LET first == IF function = Chars["Cause"] THEN cause(edges, start_var, end_var)
                 ELSE IF function = Chars["Correlate"]
                      THEN correlate(edges, start_var, end_var)
                      ELSE edges
    IN  IF function = Chars["Interaction"]
        THEN correlate(first, start_var, end_var)
        ELSE first

output_branch_design_as_graph(kind) ==
    CASE kind \in {"Graph", "Design"} -> "edges"
      [] kind = "StatisticalModel" -> "NotImplementedError"
      [] OTHER -> "ValueError"

\* The isinstance chain on output_obj in the loop of postprocess_query_results.
output_branch(kind) ==
    CASE kind = "Graph" -> "edges"
      [] kind = "StatisticalModel" -> "NotImplementedError"
      [] kind = "Design" -> "NotImplementedError"
      [] OTHER -> "ValueError"

collect_rules_design_with_interactions(kind) ==
    CASE kind \in {"StatisticalModel", "Design"} ->
             [raised |-> "none",
              rules |-> <<"interaction_rules", "data_type_rules",
                          "data_transformation_rules", "variance_functions_rules">>]
      [] kind = "Graph" -> [raised |-> "none", rules |-> <<"graph_rules">>]
      [] OTHER -> [raised |-> "ValueError", rules |-> <<>>]

\* collect_rules(output_obj): the keys of the rules dict, in insertion order.
collect_rules(kind) ==
    CASE kind = "StatisticalModel" ->
             [raised |-> "none",
              rules |-> <<"interaction_rules", "data_type_rules",
                          "data_transformation_rules", "variance_functions_rules">>]
      [] kind = "Graph" -> [raised |-> "none", rules |-> <<"graph_rules">>]
      [] kind = "Design" ->
             [raised |-> "none",
              rules |-> <<"data_type_rules", "data_transformation_rules",
                          "variance_functions_rules">>]
      [] OTHER -> [raised |-> "ValueError", rules |-> <<>>]

\* What solve(facts, rules) hands back to query: it raises, or it returns a
\* model and updated_facts, the facts that are left of facts (in their order),
\* all of them true in the model.
SubLists(l) ==
    {s \in QueryFactLists(Range(l), Len(l)) :
        \A i, j \in 1..Len(s) : i < j =>
            (CHOOSE k \in 1..Len(l) : l[k] = s[i]) < (CHOOSE k \in 1..Len(l) : l[k] = s[j])}

solve_returns(fl, universe) ==
    UNION {{[model |-> m, updated_facts |-> uf] :
               m \in {x \in SUBSET universe : Range(uf) \subseteq x}} :
           uf \in SubLists(fl)}

\* No call of query, collect_rules or postprocess_query_results is modelled.
QueryUnused ==
    /\ q_pc = "unused"
    /\ q_args = "unused"
    /\ input_obj = "unused"
    /\ output_obj = "unused"
    /\ q_rules = "unused"
    /\ q_solved = "unused"
    /\ q_i = "unused"
    /\ q_err = "unused"

QueryIdle ==
    /\ q_pc = "idle"
    /\ q_args = NoArgs
    /\ input_obj = NoInput
    /\ output_obj = Output("none")
    /\ q_rules = <<>>
    /\ q_solved = NoSolved
    /\ q_i = 0
    /\ q_err = "none"

-----------------------------------------------------------------------------
(* Tisane (src/tisane/main.py) and its conceptual graph *)

MaxOps == 2          \* calls made on one Tisane object

MaxConceptList == 2  \* longest list handed to addConceptList

Tasks == {"EXPLANATION", "PREDICTION", "HYPOTHESIS_TESTING"}

RelationshipTypes == {"cause", "correlate", "unknown"}

ConceptLists == UNION {[1..k -> Names] : k \in 0..MaxConceptList}

\* ConceptGraph(): no node, no edge.  The nodes are kept as a list, so that a
\* concept added twice would show.
EmptyGraph == [nodes |-> <<>>, edges |-> {}]

\* ConceptGraph.hasConcept(con): a concept is known by its name.
hasConcept(gr, con) == \E i \in 1..Len(gr.nodes) : gr.nodes[i] = con

\* ConceptGraph.addNode(con)
addNode(gr, con) == [gr EXCEPT !.nodes = Append(@, con)]

\* ConceptGraph.addEdge(lhs, rhs, kind): one edge of a kind per ordered pair.
addEdge(gr, lhs, rhs, kind) ==
    [gr EXCEPT !.edges = @ \cup {[lhs |-> lhs, rhs |-> rhs, kind |-> kind]}]

\* CONCEPTUAL_RELATIONSHIP.cast(type_str): the kind, or a ValueError.
cast_relationship(ty) == IF ty \in {"cause", "correlate"} THEN ty ELSE "ValueError"

addConcept_unguarded(gr, con) == addNode(gr, con)

\* The body of Tisane.addConcept, as the graph it leaves in self.graph.
addConcept(gr, con) == IF hasConcept(gr, con) THEN gr ELSE addNode(gr, con)

RECURSIVE addConceptList(_, _)
\* The body of Tisane.addConceptList: the same, concept after concept.
addConceptList(gr, cons) ==
    IF cons = <<>> THEN gr
    ELSE addConceptList(IF hasConcept(gr, Head(cons)) THEN gr ELSE addNode(gr, Head(cons)),
                        Tail(cons))

CausalNeighbours(gr, dv) == {e.lhs : e \in {x \in gr.edges : x.rhs = dv /\ x.kind = "cause"}}

CorrelationalNeighbours(gr, dv) ==
    {e.lhs : e \in {x \in gr.edges : x.rhs = dv /\ x.kind = "correlate"}}
    \cup {e.rhs : e \in {x \in gr.edges : x.lhs = dv /\ x.kind = "correlate"}}

\* ConceptGraph.generate_effects_sets(dv): the subsets of a pool of neighbours
\* of dv.  It is handed dv and nothing else, so the pool is the same for every
\* task: either the variables that have only a causal relationship with dv, or
\* those that have a causal or a correlational one.
generate_effects_sets(gr, dv) ==
    {SUBSET (CausalNeighbours(gr, dv) \ CorrelationalNeighbours(gr, dv)),
     SUBSET (CausalNeighbours(gr, dv) \cup CorrelationalNeighbours(gr, dv))}

NoOp == [op |-> "none", cons |-> <<>>, kind |-> "none", before |-> EmptyGraph,
         raised |-> "none", effects |-> {}]

NoRandomEffect == [cls |-> "none", via |-> "none", iv |-> "none", groups |-> "none",
                   slope_groups |-> "none", intercept_groups |-> "none",
                   main_effects |-> {}, raised |-> "none", args |-> "none",
                   value |-> "none"]

\* No Tisane object is modelled.
TisaneUnused ==
    /\ task = "unused"
    /\ graph = "unused"
    /\ t_last = "unused"
    /\ t_ops = "unused"

\* No random effect is modelled.
RandomEffectsUnused == re = "unused"

\* No call of the code generator is modelled.
CodeGenUnused ==
    /\ statistical_model = "unused"
    /\ kwargs = "unused"
    /\ code = "unused"

-----------------------------------------------------------------------------
(* Calls *)

ManagerIdle ==
    /\ pc = "idle"
    /\ facts = <<>>
    /\ rules = <<>>
    /\ batch = 0
    /\ solverRules = {}
    /\ added = <<>>
    /\ assertions = <<>>
    /\ unsat_core = <<>>
    /\ keep = <<>>
    /\ idx = NoAnswer
    /\ updated_facts = <<>>
    /\ lastCheck = NoCheck
    /\ result = NoResult
    /\ err = "none"
    /\ rounds = 0
    /\ discarded = {}
    /\ uc = NoCall

Init ==
    /\ ManagerIdle
    /\ QueryUnused
    /\ TisaneUnused
    /\ RandomEffectsUnused
    /\ CodeGenUnused

\* solve(facts, rules) is called: updated_facts = list(); s = Solver().
CallSolve ==
    /\ pc = "idle"
    /\ \E f \in FactLists(MaxFacts), r \in RuleDicts :
        /\ facts' = f
        /\ rules' = r
    /\ pc' = "loop"
    /\ UNCHANGED <<batch, solverRules, added, assertions, unsat_core, keep, idx,
                   updated_facts, lastCheck, result, err, rounds, discarded, uc>>
    /\ UNCHANGED <<queryVars, tisaneVars, re, codegenVars>>

\* The for loop takes the next batch: s.add(rules), then
\* check_update_constraints(solver=s, assertions=facts) is entered.
AddBatch ==
    /\ pc = "loop"
    /\ batch < Len(rules)
    /\ batch' = batch + 1
    /\ solverRules' = add(solverRules, rules[batch + 1])
    /\ added' = Append(added, batch + 1)
    /\ assertions' = facts
    /\ rounds' = 0
    /\ pc' = "check"
    /\ UNCHANGED <<facts, rules, unsat_core, keep, idx, updated_facts, lastCheck,
                   result, err, discarded, uc>>
    /\ UNCHANGED <<queryVars, tisaneVars, re, codegenVars>>

Raise(e) ==
    /\ pc' = "error"
    /\ err' = e

\* state = solver.check(assertions) and the branch on it.
Check ==
    /\ pc = "check"
    /\ \E st \in CheckStates(assertions, solverRules) :
        /\ lastCheck' = [state |-> st, assumptions |-> assertions,
                         rules |-> solverRules, by |-> "check"]
        /\ CASE state_branch(st) = "resolve" ->
                  \E core \in UnsatCores(assertions, solverRules) :
                      /\ unsat_core' = core
                      /\ IF core_asserted(core)
                            THEN /\ pc' = "elicit"
                                 /\ keep' = <<>>
                                 /\ err' = err
                            ELSE /\ Raise("AssertionError")
                                 /\ UNCHANGED keep
             [] state_branch(st) = "pass" ->
                  /\ pc' = "recheck"
                  /\ UNCHANGED <<unsat_core, keep, err>>
             [] OTHER ->
                  /\ Raise("ValueError")
                  /\ UNCHANGED <<unsat_core, keep>>
    /\ UNCHANGED <<facts, rules, batch, solverRules, added, assertions, idx,
                   updated_facts, result, rounds, discarded, uc>>
    /\ UNCHANGED <<queryVars, tisaneVars, re, codegenVars>>

\* One pass of the while loop of elicit_user_input; on a valid index the
\* function returns and update_clauses rewrites assertions.
Prompt ==
    /\ pc = "elicit"
    /\ rounds < MaxRounds
    /\ \E i \in Answers :
        /\ idx' = i
        /\ CASE i = -1 ->
                  UNCHANGED <<pc, keep, assertions, rounds, discarded, err>>
             [] i \in 0 .. (Len(unsat_core) - 1) ->
                  LET k == Append(keep, selected(unsat_core, i))
                  IN  /\ keep' = k
                      /\ IF AssertionFails(unsat_core, k)
                            THEN /\ Raise("AssertionError")
                                 /\ UNCHANGED <<assertions, rounds, discarded>>
                            ELSE /\ assertions' = update_clauses(assertions, unsat_core, k)
                                 /\ discarded' = discarded \cup
                                        { c \in Range(assertions) : Remove(c, unsat_core, k) }
                                 /\ rounds' = rounds + 1
                                 /\ pc' = "recheck"
                                 /\ err' = err
             [] OTHER ->
                  /\ Raise("ValueError")
                  /\ UNCHANGED <<keep, assertions, rounds, discarded>>
    /\ UNCHANGED <<facts, rules, batch, solverRules, added, unsat_core,
                   updated_facts, lastCheck, result, uc>>
    /\ UNCHANGED <<queryVars, tisaneVars, re, codegenVars>>

\* new_state = solver.check(assertions) and the branch on it.
Recheck ==
    /\ pc = "recheck"
    /\ \E st \in CheckStates(assertions, solverRules) :
        /\ lastCheck' = [state |-> st, assumptions |-> assertions,
                         rules |-> solverRules, by |-> "recheck"]
        /\ CASE st = "sat" ->
                  /\ updated_facts' = assertions
                  /\ pc' = "loop"
                  /\ err' = err
                  /\ unsat_core' = <<>>
                  /\ keep' = <<>>
                  /\ idx' = NoAnswer
             [] st = "unsat" ->
                  /\ pc' = "check"
                  /\ unsat_core' = <<>>
                  /\ keep' = <<>>
                  /\ idx' = NoAnswer
                  /\ UNCHANGED <<updated_facts, err>>
             [] OTHER ->
                  /\ Raise("ValueError")
                  /\ UNCHANGED <<updated_facts, unsat_core, keep, idx>>
    /\ UNCHANGED <<facts, rules, batch, solverRules, added, assertions,
                   result, rounds, discarded, uc>>
    /\ UNCHANGED <<queryVars, tisaneVars, re, codegenVars>>

\* The for loop is over: mdl = s.model(); return (mdl, updated_facts).
ReturnModel ==
    /\ pc = "loop"
    /\ batch = Len(rules)
    /\ IF lastCheck.state = "sat"
          THEN /\ \E m \in model(lastCheck) :
                     result' = [returned |-> TRUE, mdl |-> m, facts |-> updated_facts]
               /\ pc' = "done"
               /\ err' = err
          ELSE /\ Raise("Z3Exception")
               /\ result' = result
    /\ UNCHANGED <<facts, rules, batch, solverRules, added, assertions, unsat_core, keep,
                   idx, updated_facts, lastCheck, rounds, discarded, uc>>
    /\ UNCHANGED <<queryVars, tisaneVars, re, codegenVars>>

\* update_clauses(pushed_constraints, unsat_core, keep_clause) is called directly.
CallUpdateClauses ==
    /\ pc = "idle"
    /\ \E p \in AnyFactLists(MaxFacts), c \in PermLists(MaxFacts), k \in AnyFactLists(MaxFacts) :
        uc' = [called |-> TRUE,
               pushed_constraints |-> p, unsat_core |-> c, keep_clause |-> k,
               pushed_after |-> p,
               raised |-> AssertionFails(c, k),
               out |-> IF AssertionFails(c, k) THEN <<>> ELSE update_clauses(p, c, k)]
    /\ pc' = "uc_done"
    /\ UNCHANGED <<err>>
    /\ UNCHANGED solveVars
    /\ UNCHANGED <<queryVars, tisaneVars, re, codegenVars>>

Next ==
    \/ CallSolve
    \/ AddBatch
    \/ Check
    \/ Prompt
    \/ Recheck
    \/ ReturnModel
    \/ CallUpdateClauses

Spec == Init /\ [][Next]_vars

-----------------------------------------------------------------------------
(* query, collect_rules and postprocess_query_results: calls *)

Args(c, io, k, m, uf) ==
    [call |-> c, input_obj |-> io, output |-> k, model |-> m, updated_facts |-> uf]

QRaise(e) ==
    /\ q_pc' = "error"
    /\ q_err' = e

\* query(input_obj, output_obj, output) up to the call of collect_rules: the
\* facts are compiled and input_obj.generate_consts() leaves the constants on
\* the input object, where query reads them (input_obj.dv.const,
\* input_obj.consts[...]).
CallQuery ==
    /\ q_pc = "idle"
    /\ \E io \in InputObjects, k \in OutputKinds :
        /\ WellFormed(io)
        /\ q_args' = Args("query", io, k, {}, <<>>)
        /\ input_obj' = [io EXCEPT !.consts = TRUE]
        /\ output_obj' = Output(k)
    /\ q_pc' = "collect"
    /\ UNCHANGED <<q_rules, q_solved, q_i, q_err>>
    /\ UNCHANGED <<managerVars, tisaneVars, re, codegenVars>>

\* query: rules = self.collect_rules(output_obj=output_obj)
QueryCollectRules ==
    /\ q_pc = "collect"
    /\ LET r == collect_rules(output_obj.kind)
       IN  IF r.raised = "none"
           THEN /\ q_rules' = r.rules
                /\ q_pc' = "solve"
                /\ UNCHANGED q_err
           ELSE /\ QRaise(r.raised)
                /\ UNCHANGED q_rules
    /\ UNCHANGED <<q_args, input_obj, output_obj, q_solved, q_i>>
    /\ UNCHANGED <<managerVars, tisaneVars, re, codegenVars>>

\* query: (model, updated_facts) = self.solve(facts=facts, rules=rules), which
\* returns or raises.
QuerySolve ==
    /\ q_pc = "solve"
    /\ \/ /\ \E r \in solve_returns(input_obj.facts,
                                    {f \in QueryFacts : VarsOf({f}) \subseteq input_obj.variables}) :
                q_solved' = r
          /\ q_pc' = "breakpoint"
          /\ UNCHANGED q_err
       \/ /\ \E e \in {"ValueError", "AssertionError", "Z3Exception"} : QRaise(e)
          /\ UNCHANGED q_solved
    /\ UNCHANGED <<q_args, input_obj, output_obj, q_rules, q_i>>
    /\ UNCHANGED <<managerVars, tisaneVars, re, codegenVars>>

\* query: import pdb; pdb.set_trace().  The debugger is left with continue, or
\* with quit, which raises BdbQuit.
QueryBreakpoint ==
    /\ q_pc = "breakpoint"
    /\ \/ /\ q_pc' = "cast"
          /\ UNCHANGED q_err
       \/ QRaise("BdbQuit")
    /\ UNCHANGED <<q_args, input_obj, output_obj, q_rules, q_solved, q_i>>
    /\ UNCHANGED <<managerVars, tisaneVars, re, codegenVars>>

\* collect_rules(output_obj) called on its own.
CallCollectRules ==
    /\ q_pc = "idle"
    /\ \E k \in OutputKinds :
        /\ q_args' = Args("collect_rules", NoInput, k, {}, <<>>)
        /\ output_obj' = Output(k)
        /\ LET r == collect_rules(k)
           IN  /\ q_rules' = r.rules
               /\ q_err' = r.raised
               /\ q_pc' = IF r.raised = "none" THEN "done" ELSE "error"
    /\ UNCHANGED <<input_obj, q_solved, q_i>>
    /\ UNCHANGED <<managerVars, tisaneVars, re, codegenVars>>

\* postprocess_query_results(model, updated_facts, input_obj, output_obj)
\* called on its own, with a model in which the updated facts are true.
CallPostprocess ==
    /\ q_pc = "idle"
    /\ \E io \in InputObjects, k \in OutputKinds,
          uf \in QueryFactLists(QueryFacts, MaxCastFacts), m \in SUBSET QueryFacts :
        /\ io.facts = <<>>
        /\ Range(uf) \subseteq m
        /\ q_args' = Args("postprocess_query_results", io, k, m, uf)
        /\ input_obj' = io
        /\ output_obj' = Output(k)
        /\ q_solved' = [model |-> m, updated_facts |-> uf]
    /\ q_pc' = "cast"
    /\ UNCHANGED <<q_rules, q_i, q_err>>
    /\ UNCHANGED <<managerVars, tisaneVars, re, codegenVars>>

\* One turn of the loop: for f in updated_facts.
CastFact ==
    /\ q_pc = "cast"
    /\ q_i < Len(q_solved.updated_facts)
    /\ LET fact_dict == parse_facts(q_solved.updated_facts[q_i + 1])
           var_names_to_variables == get_var_names_to_variables(input_obj)
       IN  IF fact_dict.raised # "none"
           THEN QRaise(fact_dict.raised) /\ UNCHANGED <<output_obj, q_i>>
           ELSE CASE output_branch(output_obj.kind) = "edges" ->
                     IF /\ fact_dict.start \in DOMAIN var_names_to_variables
                        /\ fact_dict.end \in DOMAIN var_names_to_variables
                     THEN /\ output_obj' =
                               [output_obj EXCEPT !.edges =
                                   add_edge(@, fact_dict.function,
                                            var_names_to_variables[fact_dict.start],
                                            var_names_to_variables[fact_dict.end])]
                          /\ q_i' = q_i + 1
                          /\ UNCHANGED <<q_pc, q_err>>
                     ELSE QRaise("KeyError") /\ UNCHANGED <<output_obj, q_i>>
                  [] OTHER ->
                     QRaise(output_branch(output_obj.kind)) /\ UNCHANGED <<output_obj, q_i>>
    /\ UNCHANGED <<q_args, input_obj, q_rules, q_solved>>
    /\ UNCHANGED <<managerVars, tisaneVars, re, codegenVars>>

\* The loop is over: return output_obj.
CastReturn ==
    /\ q_pc = "cast"
    /\ q_i = Len(q_solved.updated_facts)
    /\ q_pc' = "done"
    /\ UNCHANGED <<q_args, input_obj, output_obj, q_rules, q_solved, q_i, q_err>>
    /\ UNCHANGED <<managerVars, tisaneVars, re, codegenVars>>

QueryNext ==
    \/ CallQuery
    \/ QueryCollectRules
    \/ QuerySolve
    \/ QueryBreakpoint
    \/ CallCollectRules
    \/ CallPostprocess
    \/ CastFact
    \/ CastReturn

QueryInit ==
    /\ ManagerIdle
    /\ QueryIdle
    /\ TisaneUnused
    /\ RandomEffectsUnused
    /\ CodeGenUnused

QuerySpec == QueryInit /\ [][QueryNext]_vars

-----------------------------------------------------------------------------
(* Tisane: calls *)

Op(o, cs, k, r, es) ==
    [op |-> o, cons |-> cs, kind |-> k, before |-> graph, raised |-> r, effects |-> es]

\* Tisane(task), for a task that TASK.cast knows.
TisaneInit ==
    /\ ManagerIdle
    /\ QueryUnused
    /\ RandomEffectsUnused
    /\ CodeGenUnused
    /\ task \in Tasks
    /\ graph = EmptyGraph
    /\ t_last = NoOp
    /\ t_ops = 0

\* addConcept(con)
CallAddConcept ==
    /\ t_ops < MaxOps
    /\ \E con \in Names :
        /\ graph' = addConcept(graph, con)
        /\ t_last' = Op("addConcept", <<con>>, "none", "none", {})
    /\ t_ops' = t_ops + 1
    /\ UNCHANGED <<task, re, codegenVars>>
    /\ UNCHANGED <<managerVars, queryVars>>

\* addConceptList(cons)
CallAddConceptList ==
    /\ t_ops < MaxOps
    /\ \E cons \in ConceptLists :
        /\ graph' = addConceptList(graph, cons)
        /\ t_last' = Op("addConceptList", cons, "none", "none", {})
    /\ t_ops' = t_ops + 1
    /\ UNCHANGED <<task, re, codegenVars>>
    /\ UNCHANGED <<managerVars, queryVars>>

\* addRelationship(lhs_con, rhs_con, relationship_type): the nodes first, then
\* the cast of the type, which may raise, then the edge.
CallAddRelationship ==
    /\ t_ops < MaxOps
    /\ \E lhs_con \in Names, rhs_con \in Names, relationship_type \in RelationshipTypes :
        LET all_cons == <<lhs_con, rhs_con>>
            with_nodes == addConceptList(graph, all_cons)
            cr == cast_relationship(relationship_type)
        IN  IF cr = "ValueError"
            THEN /\ graph' = with_nodes
                 /\ t_last' = Op("addRelationship", all_cons, relationship_type, "ValueError", {})
            ELSE /\ graph' = addEdge(with_nodes, lhs_con, rhs_con, cr)
                 /\ t_last' = Op("addRelationship", all_cons, relationship_type, "none", {})
    /\ t_ops' = t_ops + 1
    /\ UNCHANGED <<task, re, codegenVars>>
    /\ UNCHANGED <<managerVars, queryVars>>

\* generate_effects_sets(dv): return self.graph.generate_effects_sets(dv=dv)
CallGenerateEffectsSets ==
    /\ t_ops < MaxOps
    /\ \E dv \in Names :
        \E effects_sets \in generate_effects_sets(graph, dv) :
            t_last' = Op("generate_effects_sets", <<dv>>, "none", "none", effects_sets)
    /\ t_ops' = t_ops + 1
    /\ UNCHANGED <<task, graph, re, codegenVars>>
    /\ UNCHANGED <<managerVars, queryVars>>

TisaneNext ==
    \/ CallAddConcept
    \/ CallAddConceptList
    \/ CallAddRelationship
    \/ CallGenerateEffectsSets

TisaneSpec == TisaneInit /\ [][TisaneNext]_vars

-----------------------------------------------------------------------------
(* Random effects (src/tisane/random_effects.py) *)

Groups == {"School", "Class"}

RandomSlopeAndInterceptClasses ==
    {"CorrelatedRandomSlopeAndIntercept", "UncorrelatedRandomSlopeAndIntercept"}

\* RandomSlope(iv, groups)
RandomSlope(iv, groups) == [iv |-> iv, groups |-> groups]

\* RandomIntercept(groups)
RandomIntercept(groups) == [groups |-> groups]

\* What a constructor of the two classes does with (iv, groups), for an
\* enclosing model with the given main effects, which it is not handed.
construct(cls, via, iv, groups, main_effects) ==
    [cls |-> cls, via |-> via, iv |-> RandomSlope(iv, groups).iv,
     groups |-> RandomSlope(iv, groups).groups,
     slope_groups |-> groups, intercept_groups |-> RandomIntercept(groups).groups,
     main_effects |-> main_effects, raised |-> "none",
     args |-> [iv |-> iv, groups |-> groups],
     value |-> [random_slope |-> RandomSlope(iv, groups),
                random_intercept |-> RandomIntercept(groups)]]

same_groups_unchecked(random_slope, random_intercept) == TRUE

\* assert(random_slope.groups == random_intercept.groups)
same_groups(random_slope, random_intercept) ==
    random_slope.groups = random_intercept.groups

\* CorrelatedRandomSlopeAndIntercept(iv, groups) and
\* UncorrelatedRandomSlopeAndIntercept(iv, groups)
Construct ==
    /\ \E cls \in RandomSlopeAndInterceptClasses, iv \in Names, groups \in Groups,
          main_effects \in SUBSET Names :
        re' = construct(cls, "constructor", iv, groups, main_effects)
    /\ UNCHANGED <<tisaneVars, codegenVars>>
    /\ UNCHANGED <<managerVars, queryVars>>

\* correlate_random_slope_and_intercept(random_slope, random_intercept) and
\* uncorrelate_random_slope_and_intercept(random_slope, random_intercept)
Combine ==
    /\ \E cls \in RandomSlopeAndInterceptClasses, iv \in Names,
          slope_groups \in Groups, intercept_groups \in Groups,
          main_effects \in SUBSET Names :
        LET random_slope == RandomSlope(iv, slope_groups)
            random_intercept == RandomIntercept(intercept_groups)
            args == [random_slope |-> random_slope, random_intercept |-> random_intercept]
        IN  IF same_groups(random_slope, random_intercept)
            THEN re' = [construct(cls, "function", random_slope.iv, random_slope.groups,
                                  main_effects) EXCEPT !.args = args]
            ELSE re' = [cls |-> cls, via |-> "function", iv |-> random_slope.iv,
                        groups |-> "none", slope_groups |-> random_slope.groups,
                        intercept_groups |-> random_intercept.groups,
                        main_effects |-> main_effects, raised |-> "AssertionError",
                        args |-> args, value |-> "none"]
    /\ UNCHANGED <<tisaneVars, codegenVars>>
    /\ UNCHANGED <<managerVars, queryVars>>

RandomEffectsNext ==
    \/ Construct
    \/ Combine

RandomEffectsInit ==
    /\ ManagerIdle
    /\ QueryUnused
    /\ TisaneUnused
    /\ CodeGenUnused
    /\ re = NoRandomEffect

RandomEffectsSpec == RandomEffectsInit /\ [][RandomEffectsNext]_vars

-----------------------------------------------------------------------------
(* The code generator (src/tisane/code_generator.py): texts *)

MaxEffects == 2         \* longest list of main effects, and of interaction effects
MaxRandomEffects == 1   \* longest list of random effects

\* The characters of the generator's texts, in the order of their code points.
Ascii ==
    <<" ", "'", "*", "+", "A", "B", "C", "D", "E", "F", "G", "H", "I", "J",
      "K", "L", "M", "N", "O", "P", "Q", "R", "S", "T", "U", "V", "W", "X",
      "Y", "Z", "a", "b", "c", "d", "e", "f", "g", "h", "i", "j", "k", "l",
      "m", "n", "o", "p", "q", "r", "s", "t", "u", "v", "w", "x", "y", "z",
      "~">>

\* ord(c), up to the gaps between the characters of Ascii.
ord(c) == CHOOSE i \in DOMAIN Ascii : Ascii[i] = c

CodeVariables == {"HW", "Race", "age"}

InteractionEffects == {"HW*Race", "Race*age"}

\* The link_function and family identifiers handed to the generator.
LinkFunctions ==
    {"identity", "log", "cloglog", "inverse", "inversesquared", "power",
     "cauchy", "probit", "logit", "Logit", "loglog", "squareroot",
     "negativebinomial"}

Families ==
    {"binomial", "gamma", "gaussian", "inversegaussian", "poisson",
     "tweedie", "normal", "negativebinomial"}

\* The string literals the link and family dispatches look for.
Literals ==
    {"IDENTITY", "LOG", "LOGLOG", "CLOGLOG", "SQUAREROOT", "INVERSE",
     "SQUARED", "INVERSESQUARED", "POWER", "CAUCHY", "PROBIT", "LOGIT",
     "NEGATIVEBINOMIAL", "BINOMIAL", "NEGATIVE", "GAMMA", "GAUSSIAN",
     "INVERSEGAUSSIAN", "POISSON", "TWEEDIE"}

\* The text of every name, identifier and literal, character by character.
CodeChars ==
    [s \in CodeVariables \cup InteractionEffects \cup {"Math"} \cup LinkFunctions
           \cup Families \cup Literals |->
        CASE s = "HW" -> <<"H", "W">>
          [] s = "Math" -> <<"M", "a", "t", "h">>
          [] s = "Race" -> <<"R", "a", "c", "e">>
          [] s = "age" -> <<"a", "g", "e">>
          [] s = "HW*Race" -> <<"H", "W", "*", "R", "a", "c", "e">>
          [] s = "Race*age" -> <<"R", "a", "c", "e", "*", "a", "g", "e">>
          [] s = "identity" -> <<"i", "d", "e", "n", "t", "i", "t", "y">>
          [] s = "log" -> <<"l", "o", "g">>
          [] s = "cloglog" -> <<"c", "l", "o", "g", "l", "o", "g">>
          [] s = "inverse" -> <<"i", "n", "v", "e", "r", "s", "e">>
          [] s = "inversesquared" -> <<"i", "n", "v", "e", "r", "s", "e", "s", "q", "u", "a", "r", "e", "d">>
          [] s = "power" -> <<"p", "o", "w", "e", "r">>
          [] s = "cauchy" -> <<"c", "a", "u", "c", "h", "y">>
          [] s = "probit" -> <<"p", "r", "o", "b", "i", "t">>
          [] s = "logit" -> <<"l", "o", "g", "i", "t">>
          [] s = "Logit" -> <<"L", "o", "g", "i", "t">>
          [] s = "loglog" -> <<"l", "o", "g", "l", "o", "g">>
          [] s = "squareroot" -> <<"s", "q", "u", "a", "r", "e", "r", "o", "o", "t">>
          [] s = "negativebinomial" -> <<"n", "e", "g", "a", "t", "i", "v", "e", "b", "i", "n", "o", "m", "i", "a", "l">>
          [] s = "binomial" -> <<"b", "i", "n", "o", "m", "i", "a", "l">>
          [] s = "gamma" -> <<"g", "a", "m", "m", "a">>
          [] s = "gaussian" -> <<"g", "a", "u", "s", "s", "i", "a", "n">>
          [] s = "inversegaussian" -> <<"i", "n", "v", "e", "r", "s", "e", "g", "a", "u", "s", "s", "i", "a", "n">>
          [] s = "poisson" -> <<"p", "o", "i", "s", "s", "o", "n">>
          [] s = "tweedie" -> <<"t", "w", "e", "e", "d", "i", "e">>
          [] s = "normal" -> <<"n", "o", "r", "m", "a", "l">>
          [] s = "IDENTITY" -> <<"I", "D", "E", "N", "T", "I", "T", "Y">>
          [] s = "LOG" -> <<"L", "O", "G">>
          [] s = "LOGLOG" -> <<"L", "O", "G", "L", "O", "G">>
          [] s = "CLOGLOG" -> <<"C", "L", "O", "G", "L", "O", "G">>
          [] s = "SQUAREROOT" -> <<"S", "Q", "U", "A", "R", "E", "R", "O", "O", "T">>
          [] s = "INVERSE" -> <<"I", "N", "V", "E", "R", "S", "E">>
          [] s = "SQUARED" -> <<"S", "Q", "U", "A", "R", "E", "D">>
          [] s = "INVERSESQUARED" -> <<"I", "N", "V", "E", "R", "S", "E", "S", "Q", "U", "A", "R", "E", "D">>
          [] s = "POWER" -> <<"P", "O", "W", "E", "R">>
          [] s = "CAUCHY" -> <<"C", "A", "U", "C", "H", "Y">>
          [] s = "PROBIT" -> <<"P", "R", "O", "B", "I", "T">>
          [] s = "LOGIT" -> <<"L", "O", "G", "I", "T">>
          [] s = "NEGATIVEBINOMIAL" -> <<"N", "E", "G", "A", "T", "I", "V", "E", "B", "I", "N", "O", "M", "I", "A", "L">>
          [] s = "BINOMIAL" -> <<"B", "I", "N", "O", "M", "I", "A", "L">>
          [] s = "NEGATIVE" -> <<"N", "E", "G", "A", "T", "I", "V", "E">>
          [] s = "GAMMA" -> <<"G", "A", "M", "M", "A">>
          [] s = "GAUSSIAN" -> <<"G", "A", "U", "S", "S", "I", "A", "N">>
          [] s = "INVERSEGAUSSIAN" -> <<"I", "N", "V", "E", "R", "S", "E", "G", "A", "U", "S", "S", "I", "A", "N">>
          [] s = "POISSON" -> <<"P", "O", "I", "S", "S", "O", "N">>
          [] s = "TWEEDIE" -> <<"T", "W", "E", "E", "D", "I", "E">>]

\* s.upper(), character by character
upper(s) ==
    [i \in DOMAIN s |-> IF ord(s[i]) \in ord("a")..ord("z")
                        THEN Ascii[ord(s[i]) - ord("a") + ord("A")]
                        ELSE s[i]]

\* sub in s, for two texts: s holds sub as a run of consecutive characters.
contains(s, sub) ==
    \E i \in 0..(Len(s) - Len(sub)) : SubSeq(s, i + 1, i + Len(sub)) = sub

\* s < t for two texts: the comparison list.sort() makes, character by
\* character on code points, a proper prefix being the smaller.
str_lt(s, t) ==
    \E k \in 1..Len(t) :
        /\ k <= Len(s) + 1
        /\ \A j \in 1..(k - 1) : s[j] = t[j]
        /\ k <= Len(s) => ord(s[k]) < ord(t[k])

-----------------------------------------------------------------------------
(* The code generator: statistical models and the two generators *)

\* Duplicate-free lists of at most n members of S, in any order.
DistinctLists(S, n) ==
    UNION { {l \in [1..k -> S] : \A i, j \in 1..k : l[i] = l[j] => i = j} : k \in 0..n }

RandomEffectClasses == {"RandomSlope", "RandomIntercept"} \cup RandomSlopeAndInterceptClasses

StatisticalModel(main_effects, interaction_effects, random_effects, fixed_ivs, interactions, random_ivs, family, link_function) ==
    [dv |-> "Math", main_effects |-> main_effects,
     interaction_effects |-> interaction_effects, random_effects |-> random_effects,
     fixed_ivs |-> fixed_ivs, interactions |-> interactions, random_ivs |-> random_ivs,
     family |-> family, link_function |-> link_function]

\* The statistical models handed to the generators: every choice of effects
\* with one family and link, and every family and link with a few choices of
\* independent variables.
StatisticalModels ==
    { StatisticalModel(m, i, r, <<>>, <<>>, <<>>, "gaussian", "identity") :
        m \in DistinctLists(CodeVariables, MaxEffects),
        i \in DistinctLists(InteractionEffects, MaxEffects),
        r \in UNION {[1..k -> RandomEffectClasses] : k \in 0..MaxRandomEffects} }
    \cup
    { StatisticalModel(<<>>, <<>>, <<>>, f, i, r, fam, l) :
        f \in {<<>>, <<"HW">>}, i \in {<<>>, <<<<"HW", "Race">>>>},
        r \in {<<>>, <<"HW">>}, fam \in Families, l \in LinkFunctions }

KeywordArguments == SUBSET {"no_intercept", "alpha", "var_power"}

NoCode == [fn |-> "none", raised |-> "none", value |-> "none"]

Raised(fn, e) == [fn |-> fn, raised |-> e, value |-> "none"]

Returned(fn, v) == [fn |-> fn, raised |-> "none", value |-> v]

\* [var.name for var in effects]
names_of(effects) == [i \in DOMAIN effects |-> CodeChars[effects[i]]]

\* names.sort()
sort(names) == SortSeq(names, str_lt)

RECURSIVE effects_code(_, _)
\* The for loop over the sorted names: the first name starts the code, every
\* later one is appended after " + ".
effects_code(names_, code_) ==
    IF names_ = <<>>
    THEN code_
    ELSE effects_code(Tail(names_),
                      IF Len(code_) = 0 THEN Head(names_)
                      ELSE code_ \o <<" ", "+", " ">> \o Head(names_))

\* The for loop over the random effects: it adds nothing to random_code, and
\* asserts that what is not a RandomSlope is a RandomIntercept.
random_code_of(random_effects) ==
    IF \E i \in DOMAIN random_effects :
          random_effects[i] \notin {"RandomSlope", "RandomIntercept"}
    THEN [raised |-> "AssertionError", random_code |-> <<>>]
    ELSE [raised |-> "none", random_code |-> <<>>]

\* " + " where the code before it and some code after it are both non-empty
connector(before, after) ==
    IF Len(before) > 0 /\ Len(after) > 0 THEN <<" ", "+", " ">> ELSE <<>>

\* generate_statsmodels_formula(statistical_model)
generate_statsmodels_formula(sm) ==
    LET dv_code == CodeChars[sm.dv] \o <<" ", "~", " ">>
        main_code == effects_code(sort(names_of(sm.main_effects)), <<>>)
        interaction_code == effects_code(sort(names_of(sm.interaction_effects)), <<>>)
        random == random_code_of(sm.random_effects)
        random_code == random.random_code
        post_main_connector == connector(main_code, interaction_code \o random_code)
        post_interaction_connector == connector(interaction_code, random_code)
    IN  IF random.raised # "none"
        THEN Raised("generate_statsmodels_formula", random.raised)
        ELSE Returned("generate_statsmodels_formula",
                      <<"'">> \o dv_code \o main_code \o post_main_connector
                      \o interaction_code \o post_interaction_connector \o random_code
                      \o <<"'">>)

\* The terms of the formula of generate_statsmodels_glm_code: the names of
\* the fixed_ivs, then each interaction joined by "*".  No term leaves
\* xs_code at None.
xs_code_of(sm) ==
    names_of(sm.fixed_ivs)
    \o [i \in DOMAIN sm.interactions |->
           CodeChars[sm.interactions[i][1]] \o <<"*">> \o CodeChars[sm.interactions[i][2]]]

\* The LINK dispatch on link = statistical_model.link_function.upper(): what
\* is appended to "sm.families.links.", or the exception raised.
link_code_of(link, kw) ==
    LET has(lit) == contains(link, CodeChars[lit])
        append(c) == [raised |-> "none", link_code |-> c]
        raise(e) == [raised |-> e, link_code |-> ""]
    IN  IF has("IDENTITY") THEN append("identity()")
        ELSE IF has("LOG") /\ ~ has("LOGLOG") THEN append("log()")
        ELSE IF has("CLOGLOG") THEN append("cloglog()")
        ELSE IF has("SQUAREROOT") THEN raise("NotImplementedError")
        ELSE IF has("INVERSE") /\ ~ has("SQUARED") THEN append("inverse_power()")
        ELSE IF has("INVERSESQUARED") THEN append("inverse_squared()")
        ELSE IF has("POWER") THEN append("Power()")
        ELSE IF has("CAUCHY") THEN append("cauchy()")
        ELSE IF has("LOGLOG") THEN append("")
        ELSE IF has("PROBIT") THEN append("probit()")
        ELSE IF has("LOGIT") THEN append("Logit()")
        ELSE IF has("NEGATIVEBINOMIAL")
             THEN IF "alpha" \in kw THEN raise("NameError")  \* alpha is no name here
                  ELSE append("nbinom()")
        ELSE append("")

\* The FAMILY dispatch on statistical_model.family.upper(): the statsmodels
\* family of family_code, "unbound" where no branch assigns family_code, or
\* the exception raised.
family_code_of(family, kw) ==
    LET has(lit) == contains(family, CodeChars[lit])
        assign(c) == [raised |-> "none", family |-> c]
    IN  IF has("BINOMIAL") /\ ~ has("NEGATIVE") THEN assign("Binomial")
        ELSE IF has("GAMMA") THEN assign("Gamma")
        ELSE IF has("GAUSSIAN") /\ ~ has("INVERSE") THEN assign("Gaussian")
        ELSE IF has("INVERSEGAUSSIAN") THEN assign("InverseGaussian")
        ELSE IF has("NEGATIVEBINOMIAL")
             THEN IF "alpha" \in kw
                  THEN [raised |-> "NameError", family |-> "unbound"]  \* kawrgs
                  ELSE assign("NegativeBinomial")
        ELSE IF has("POISSON") THEN assign("Poisson")
        ELSE IF has("TWEEDIE") THEN assign("Tweedie")
        ELSE assign("unbound")

\* generate_statsmodels_glm_code(statistical_model, **kwargs)
generate_statsmodels_glm_code(sm, kw) ==
    LET fn == "generate_statsmodels_glm_code"
        xs_code == xs_code_of(sm)
        link == link_code_of(upper(CodeChars[sm.link_function]), kw)
        family == family_code_of(upper(CodeChars[sm.family]), kw)
    IN  IF Len(sm.random_ivs) > 0 THEN Raised(fn, "AssertionError")
        ELSE IF "no_intercept" \notin kw /\ xs_code = <<>>
        THEN Raised(fn, "TypeError")            \* " ~ " + None
        ELSE IF link.raised # "none" THEN Raised(fn, link.raised)
        ELSE IF family.raised # "none" THEN Raised(fn, family.raised)
        ELSE IF "no_intercept" \in kw \/ family.family = "unbound"
        THEN Raised(fn, "UnboundLocalError")    \* model_code, family_code
        ELSE Returned(fn, [y_code |-> CodeChars[sm.dv], xs_code |-> xs_code,
                           family |-> family.family, link_code |-> link.link_code])

-----------------------------------------------------------------------------
(* The code generator: calls *)

\* generate_statsmodels_formula(statistical_model)
CallGenerateStatsmodelsFormula ==
    /\ kwargs' = {}
    /\ code' = generate_statsmodels_formula(statistical_model)
    /\ UNCHANGED statistical_model
    /\ UNCHANGED <<managerVars, queryVars, tisaneVars, re>>

\* generate_statsmodels_glm_code(statistical_model, **kwargs)
CallGenerateStatsmodelsGlmCode ==
    /\ \E kw \in KeywordArguments :
        /\ kwargs' = kw
        /\ code' = generate_statsmodels_glm_code(statistical_model, kw)
    /\ UNCHANGED statistical_model
    /\ UNCHANGED <<managerVars, queryVars, tisaneVars, re>>

CodeGenNext ==
    \/ CallGenerateStatsmodelsFormula
    \/ CallGenerateStatsmodelsGlmCode

CodeGenInit ==
    /\ ManagerIdle
    /\ QueryUnused
    /\ TisaneUnused
    /\ RandomEffectsUnused
    /\ statistical_model \in StatisticalModels
    /\ kwargs = {}
    /\ code = NoCode

CodeGenSpec == CodeGenInit /\ [][CodeGenNext]_vars

-----------------------------------------------------------------------------
(* Properties *)

AllRules == UNION { rules[i] : i \in 1..Len(rules) }

RulesUpTo(n) == UNION { rules[i] : i \in 1..n }

\* A resolution has just rewritten assertions: the first check was unsat, the
\* resolver has returned, and the re-check has not been made yet.
RoundDone == pc = "recheck" /\ lastCheck.state = "unsat"

\* C1: the conflict-resolution loop of one check_update_constraints call ends
\* within as many resolution rounds as the call was given facts.
C1_RoundsWithinInitialFacts == rounds <= Len(facts)

\* C2: every resolution round leaves a fact list strictly shorter than the
\* list that was checked.
C2_RoundStrictlyDecreases ==
    RoundDone => Len(assertions) < Len(lastCheck.assumptions)

\* C3: on the answer -1 the resolver returns an empty retained set and every
\* member of the conflict core is dropped before the re-check.
C3_NoneDropsWholeCore ==
    idx = -1 =>
        /\ pc = "recheck"
        /\ keep = <<>>
        /\ \A c \in Range(unsat_core) : ~ In(c, assertions)

\* C4: the retained clauses are a subset of the core: a valid index i retains
\* exactly core[i], an index outside the range other than -1 raises ValueError
\* and retains nothing, and update_clauses refuses a retained clause that is
\* not a member of the core.
C4_RetainedWithinCore ==
    /\ RoundDone =>
          /\ idx \in 0 .. (Len(unsat_core) - 1)
          /\ keep = << unsat_core[idx + 1] >>
          /\ Range(keep) \subseteq Range(unsat_core)
    /\ (idx \notin {NoAnswer, -1} /\ idx \notin 0 .. (Len(unsat_core) - 1)) =>
          /\ pc = "error"
          /\ err = "ValueError"
          /\ keep = <<>>
          /\ assertions = lastCheck.assumptions
    /\ uc.called =>
          (uc.raised <=> ~ (Range(uc.keep_clause) \subseteq Range(uc.unsat_core)))

C4_Witness ==
    /\ RoundDone
    /\ Len(unsat_core) = 2
    /\ idx = 1
    /\ keep = << unsat_core[2] >>

C6_DiscardedStaysDiscarded ==
    /\ pc \in {"check", "elicit", "recheck"} => Range(assertions) \cap discarded = {}
    /\ result.returned =>
          LET Stays(f) == f \notin discarded
          IN  result.facts = SelectSeq(facts, Stays)

\* C7: a returned assignment comes from a sat check and satisfies every rule
\* of every batch together with every returned fact.
C7_ReturnedModelSatisfies ==
    result.returned =>
        /\ lastCheck.state = "sat"
        /\ \A ng \in AllRules : ~ (ng \subseteq result.mdl)
        /\ Range(result.facts) \subseteq result.mdl

C7_Witness ==
    /\ result.returned
    /\ Len(rules) = 2
    /\ rules[1] # {}
    /\ rules[2] # {}
    /\ result.facts # <<>>
    /\ result.facts # facts

C9_UnknownIsFatal ==
    lastCheck.state = "unknown" =>
        /\ pc = "error"
        /\ err = "ValueError"
        /\ ~ result.returned

C9_Witness ==
    /\ lastCheck.state = "unknown"
    /\ lastCheck.by = "recheck"
    /\ rounds > 0
    /\ pc = "error"

C11_CoreIsMinimalUnsatSubset ==
    pc = "elicit" =>
        /\ unsat_core # <<>>
        /\ Range(unsat_core) \subseteq Range(lastCheck.assumptions)
        /\ ~ Satisfiable(unsat_core, solverRules)
        /\ \A c \in Range(unsat_core) :
               Satisfiable(SelectSeq(unsat_core, LAMBDA x : x # c), solverRules)

-----------------------------------------------------------------------------
(* Properties of query, collect_rules and postprocess_query_results *)

Casting == q_args.call \in {"query", "postprocess_query_results"}

\* The cast itself raised (and not collect_rules, solve or the debugger).
CastRaised ==
    /\ Casting
    /\ q_pc = "error"
    /\ \/ q_args.call = "postprocess_query_results"
       \/ q_err \in {"KeyError", "IndexError", "NotImplementedError"}

EdgePredicates == {"Cause", "Correlate", "Interaction"}

EdgeBetween(a, b) == \E e \in output_obj.edges : {e.start, e.end} = {a, b}

\* C12: after a cast to a Graph, two variables are joined by an edge exactly
\* when a Cause, Correlate or Interaction fact over the two is true in the
\* returned satisfying assignment.
C12_GraphCastSoundBothWays ==
    (Casting /\ q_pc = "done" /\ output_obj.kind = "Graph") =>
        \A a, b \in Names :
            EdgeBetween(a, b) <=>
                \E f \in q_solved.model :
                    f.function \in EdgePredicates /\ {f.start, f.end} = {a, b}

\* The edges the facts of a list stand for.
EdgesOf(fl) ==
    {[kind |-> "cause", start |-> f.start, end |-> f.end] :
        f \in {x \in Range(fl) : x.function = "Cause"}}
    \cup {[kind |-> "correlate", start |-> f.start, end |-> f.end] :
        f \in {x \in Range(fl) : x.function \in {"Correlate", "Interaction"}}}

\* C13: in a cast to a Graph the predicate alone decides the edge: Cause(a, b)
\* adds the causal edge from a to b, Correlate(a, b) and Interaction(a, b) add
\* the correlational edge between a and b, any other predicate adds no edge.
C13_EdgeKindFromPredicate ==
    (Casting /\ output_obj.kind = "Graph") =>
        output_obj.edges = EdgesOf(SubSeq(q_solved.updated_facts, 1, q_i))

C13_Witness ==
    /\ Casting /\ q_pc = "done" /\ output_obj.kind = "Graph"
    /\ \E f, g \in Range(q_solved.updated_facts) :
           f.function = "Cause" /\ g.function = "Nests"

\* The names of the registry: the variables of an input Design, and none of
\* an input of another kind.
Registry == IF input_obj.kind = "Design" THEN input_obj.variables ELSE {}

Known(f) == f.start \in Registry /\ f.end \in Registry

\* C14: in a cast to a Graph a fact with an operand name that is not in the
\* registry ends the cast with a KeyError, and a fact over the variables of
\* the input Design is looked up successfully.
C14_UnknownNameIsFatal ==
    (Casting /\ output_obj.kind = "Graph") =>
        /\ \A i \in 1..q_i : Known(q_solved.updated_facts[i])
        /\ CastRaised => /\ q_err = "KeyError"
                         /\ ~ Known(q_solved.updated_facts[q_i + 1])
        /\ (/\ input_obj.kind = "Design"
            /\ VarsOf(Range(q_solved.updated_facts)) \subseteq input_obj.variables)
           => ~ CastRaised

C14_Witness ==
    /\ CastRaised /\ output_obj.kind = "Graph" /\ q_err = "KeyError"
    /\ input_obj.kind = "Design"
    /\ q_i = 1

\* C22: a cast to a Graph takes the resolved facts one by one, in their
\* order, and is not atomic: when the lookup of the operands of fact k
\* raises, the output graph already holds the edges of facts 1..k-1 and
\* holds no edge that only fact k or a later fact stands for.
C22_CastStopsAtFailedLookup ==
    (CastRaised /\ output_obj.kind = "Graph" /\ q_err = "KeyError") =>
        LET fl == q_solved.updated_facts
            k == q_i + 1
            earlier == EdgesOf(SubSeq(fl, 1, k - 1))
        IN  /\ k \in 1..Len(fl)
            /\ ~ Known(fl[k])
            /\ earlier \subseteq output_obj.edges
            /\ \A j \in k..Len(fl) : EdgesOf(<<fl[j]>>) \cap output_obj.edges \subseteq earlier

C22_Witness ==
    /\ CastRaised /\ output_obj.kind = "Graph" /\ q_err = "KeyError"
    /\ q_i >= 1
    /\ output_obj.edges # {}
    /\ q_solved.updated_facts[q_i + 1].function \in EdgePredicates

\* C15: collect_rules goes by the kind of the output alone: a statistical
\* model gets the interaction, data-type, data-transformation and
\* variance-function batches in that order, a graph the graph rules only, a
\* design the data-type, data-transformation and variance-function batches,
\* and any other kind a ValueError and no batch.
C15_RulesByOutputKind ==
    (q_args.call = "collect_rules" \/ (q_args.call = "query" /\ q_pc # "collect")) =>
        /\ output_obj.kind = "StatisticalModel" =>
               q_rules = <<"interaction_rules", "data_type_rules",
                           "data_transformation_rules", "variance_functions_rules">>
        /\ output_obj.kind = "Graph" => q_rules = <<"graph_rules">>
        /\ output_obj.kind = "Design" =>
               q_rules = <<"data_type_rules", "data_transformation_rules",
                           "variance_functions_rules">>
        /\ output_obj.kind \in {"StatisticalModel", "Graph", "Design"} =>
               /\ q_rules # <<>>
               /\ q_args.call = "collect_rules" => q_pc = "done"
        /\ output_obj.kind \notin {"StatisticalModel", "Graph", "Design"} =>
               /\ q_rules = <<>>
               /\ q_pc = "error"
               /\ q_err = "ValueError"

C15_Witness ==
    /\ q_args.call = "query"
    /\ q_pc = "solve"
    /\ output_obj.kind = "Design"

\* C16: a query never changes its input object: while it runs and after it has
\* returned or failed, the input is what it was when the query was called.
C16_QueryLeavesInputAlone ==
    q_args.call = "query" => input_obj = q_args.input_obj

\* C20: a cast to a StatisticalModel or a Design raises NotImplementedError at
\* the first fact and writes nothing, a cast to any other unsupported kind
\* raises ValueError at the first fact, and with no fact at all the output is
\* returned as it was.
C20_OnlyGraphCastIsImplemented ==
    (Casting /\ output_obj.kind # "Graph") =>
        /\ output_obj = Output(q_args.output)
        /\ q_i = 0
        /\ q_pc = "done" => q_solved.updated_facts = <<>>
        /\ CastRaised =>
               /\ q_solved.updated_facts # <<>>
               /\ q_err = IF output_obj.kind \in {"StatisticalModel", "Design"}
                          THEN "NotImplementedError"
                          ELSE "ValueError"

C20_Witness ==
    /\ CastRaised
    /\ output_obj.kind = "Design"
    /\ q_err = "NotImplementedError"
    /\ Len(q_solved.updated_facts) = 2

-----------------------------------------------------------------------------
(* Properties of the random effects and of Tisane *)

\* C17: a CorrelatedRandomSlopeAndIntercept or an
\* UncorrelatedRandomSlopeAndIntercept whose iv is not among the main effects
\* of the enclosing model is refused when it is constructed, directly or
\* through correlate_ / uncorrelate_random_slope_and_intercept.
C17_SlopeNeedsMainEffect ==
    (re.cls # "none" /\ re.iv \notin re.main_effects) => re.raised # "none"

\* C23: correlate_random_slope_and_intercept and
\* uncorrelate_random_slope_and_intercept combine a random slope and a random
\* intercept of the same groups only: with different groups the call fails
\* its assertion and produces no effect, with equal groups the effect holds
\* the slope's iv and the shared groups in its random_slope, and the shared
\* groups in its random_intercept.
C23_CombineNeedsSameGroups ==
    re.via = "function" =>
        IF re.args.random_slope.groups # re.args.random_intercept.groups
        THEN re.raised = "AssertionError" /\ re.value = "none"
        ELSE /\ re.raised = "none"
             /\ re.value.random_slope = [iv |-> re.args.random_slope.iv,
                                         groups |-> re.args.random_slope.groups]
             /\ re.value.random_intercept = [groups |-> re.args.random_intercept.groups]

C23_Witness ==
    /\ re.via = "function"
    /\ re.args.random_slope.groups # re.args.random_intercept.groups
    /\ re.raised = "AssertionError"

NoDuplicate(l) == \A i, j \in 1..Len(l) : i # j => l[i] # l[j]

\* C18: adding concepts that are already in the graph changes neither its
\* nodes nor its edges, and no concept is ever a node twice: addConcept and
\* addConceptList leave the nodes that were there, in their order, followed by
\* the new concepts once each.
C18_AddConceptIsIdempotent ==
    /\ NoDuplicate(graph.nodes)
    /\ t_last.op \in {"addConcept", "addConceptList"} =>
        /\ graph.edges = t_last.before.edges
        /\ Range(graph.nodes) = Range(t_last.before.nodes) \cup Range(t_last.cons)
        /\ SubSeq(graph.nodes, 1, Len(t_last.before.nodes)) = t_last.before.nodes
        /\ Range(t_last.cons) \subseteq Range(t_last.before.nodes) => graph = t_last.before

C18_Witness ==
    /\ t_last.op = "addConcept"
    /\ t_last.cons[1] \in Range(t_last.before.nodes)
    /\ t_last.before.edges # {}

\* C19: the effects sets follow the task: for an explanation they are made of
\* the variables with only a causal relationship with the dependent variable,
\* for a prediction of those with a causal or a correlational one, and every
\* variable of that pool is in some effects set.
C19_EffectsSetsFollowTask ==
    (t_last.op = "generate_effects_sets" /\ task \in {"EXPLANATION", "PREDICTION"}) =>
        LET dv == t_last.cons[1]
            pool == IF task = "EXPLANATION"
                    THEN CausalNeighbours(graph, dv) \ CorrelationalNeighbours(graph, dv)
                    ELSE CausalNeighbours(graph, dv) \cup CorrelationalNeighbours(graph, dv)
        IN  /\ \A s \in t_last.effects : s \subseteq pool
            /\ \A v \in pool : \E s \in t_last.effects : v \in s


-----------------------------------------------------------------------------
(* Properties of the code generator *)

FormulaCalled == code.fn = "generate_statsmodels_formula"

\* The text of the returned formula between "'dv ~ " and the closing quote.
FormulaBody ==
    SubSeq(code.value, Len(CodeChars[statistical_model.dv]) + 5, Len(code.value) - 1)

\* The terms of the returned formula: what stands between its "+" signs,
\* without the blanks around it.
FormulaTerms ==
    IF FormulaBody = <<>>
    THEN <<>>
    ELSE LET pieces == split(FormulaBody, "+")
         IN  [i \in DOMAIN pieces |-> strip(pieces[i])]

RECURSIVE JoinedByPlus(_)
\* The terms with exactly one " + " between neighbours and none elsewhere.
JoinedByPlus(terms) ==
    IF terms = <<>> THEN <<>>
    ELSE IF Len(terms) = 1 THEN terms[1]
    ELSE terms[1] \o <<" ", "+", " ">> \o JoinedByPlus(Tail(terms))

\* s.lower(), character by character
lower(s) ==
    [i \in DOMAIN s |-> IF ord(s[i]) \in ord("A")..ord("Z")
                        THEN Ascii[ord(s[i]) - ord("A") + ord("a")]
                        ELSE s[i]]

\* The names stand in ascending alphabetical order: letter by letter, a
\* capital letter counting as its small letter.
Alphabetical(names) ==
    \A i, j \in DOMAIN names : i < j => ~ str_lt(lower(names[j]), lower(names[i]))

\* The names stand in ascending order of their code points.
CodePointOrder(names) ==
    \A i, j \in DOMAIN names : i < j => ~ str_lt(names[j], names[i])

\* The terms are the main effects' names and then the interactions' names.
MainThenInteractions(terms) ==
    LET m == Len(statistical_model.main_effects)
        n == Len(statistical_model.interaction_effects)
    IN  /\ Len(terms) = m + n
        /\ Range(SubSeq(terms, 1, m)) = Range(names_of(statistical_model.main_effects))
        /\ Range(SubSeq(terms, m + 1, m + n))
             = Range(names_of(statistical_model.interaction_effects))

\* C21: for every statistical model, generate_statsmodels_formula returns a
\* formula whose terms are the main effects' names in ascending alphabetical
\* order, then the interactions' names in ascending alphabetical order, with
\* exactly one " + " between two terms and none before the first or after
\* the last, whichever parts are empty.
C21_FormulaSortedAndJoined ==
    FormulaCalled =>
        /\ code.raised = "none"
        /\ MainThenInteractions(FormulaTerms)
        /\ Alphabetical(SubSeq(FormulaTerms, 1, Len(statistical_model.main_effects)))
        /\ Alphabetical(SubSeq(FormulaTerms, Len(statistical_model.main_effects) + 1,
                               Len(FormulaTerms)))
        /\ \A i \in DOMAIN FormulaTerms : FormulaTerms[i] # <<>>
        /\ FormulaBody = JoinedByPlus(FormulaTerms)

GlmReturned == code.fn = "generate_statsmodels_glm_code" /\ code.raised = "none"

\* The statsmodels link of each supported link identifier.
OwnLink ==
    [l \in {"IDENTITY", "LOG", "CLOGLOG", "INVERSE", "INVERSESQUARED", "POWER", "CAUCHY",
            "PROBIT", "LOGIT"} |->
        CASE l = "IDENTITY"       -> "identity()"
          [] l = "LOG"            -> "log()"
          [] l = "CLOGLOG"        -> "cloglog()"
          [] l = "INVERSE"        -> "inverse_power()"
          [] l = "INVERSESQUARED" -> "inverse_squared()"
          [] l = "POWER"          -> "Power()"
          [] l = "CAUCHY"         -> "cauchy()"
          [] l = "PROBIT"         -> "probit()"
          [] l = "LOGIT"          -> "Logit()"]

\* C24: in the code generate_statsmodels_glm_code returns, every supported
\* link identifier has its own statsmodels link (identity(), log(),
\* cloglog(), inverse_power(), inverse_squared(), Power(), cauchy(),
\* probit(), Logit()), and a link identifier that contains LOGIT has Logit().
C24_EachLinkItsOwn ==
    GlmReturned =>
        LET link == upper(CodeChars[statistical_model.link_function])
        IN  /\ \A l \in DOMAIN OwnLink :
                 link = CodeChars[l] => code.value.link_code = OwnLink[l]
            /\ contains(link, CodeChars["LOGIT"]) => code.value.link_code = "Logit()"

====
